---- MODULE Spec2Model ----
(***************************************************************************)
(* The pull-request review workflow of src/agent.py: three agents          *)
(* (ContextAgent, CommentorAgent, ReviewAndPostingAgent) that call tools   *)
(* over a shared state dictionary and hand control to each other, run once *)
(* by main().                                                              *)
(*                                                                         *)
(* What the language model decides (which tools, which arguments, which    *)
(* handoff target, when to answer) and what GitHub answers are inputs,     *)
(* drawn with \E.  The tools are translated statement by statement.        *)
(***************************************************************************)
EXTENDS Integers, Sequences, FiniteSets, TLC

\* ------------------------------------------------------------------ bounds
\* Turns the model follows a run for (the code has no such limit).
MaxTurns == 5
\* Tool calls an agent issues in one turn.
MaxBatch == 2

\* The texts an agent may pass to a state tool.
Values == {"v1", "v2"}

\* ------------------------------------------------------------------ agents
ContextAgent == "ContextAgent"
CommentorAgent == "CommentorAgent"
ReviewAndPostingAgent == "ReviewAndPostingAgent"

\* AgentWorkflow(agents=[...])
Agents == {ContextAgent, CommentorAgent, ReviewAndPostingAgent}

\* AgentWorkflow(root_agent=review_and_posting_agent.name)
root_agent == ReviewAndPostingAgent

\* A name the language model may produce that no agent carries.
UndeclaredAgent == "UndeclaredAgent"
HandoffTargets == Agents \cup {UndeclaredAgent}

\* Variant: every agent may hand off to every other agent.
can_handoff_to_anyone(agent) == Agents \ {agent}

\* FunctionAgent(can_handoff_to=[...])
can_handoff_to(agent) ==
    CASE agent = ContextAgent          -> {CommentorAgent}
      [] agent = CommentorAgent        -> {ContextAgent, ReviewAndPostingAgent}
      [] agent = ReviewAndPostingAgent -> {CommentorAgent}

ReadTools == {"get_pr_details", "get_commit_details", "get_file_content"}
StateTools == {"add_gathered_context_to_state", "add_draft_comment_to_state",
               "add_final_review_to_state"}
PostTool == "post_final_review_to_github"

\* FunctionAgent(tools=[...])
tools(agent) ==
    CASE agent = ContextAgent ->
            {"get_pr_details", "get_commit_details", "get_file_content",
             "add_gathered_context_to_state"}
      [] agent = CommentorAgent -> {"add_draft_comment_to_state"}
      [] agent = ReviewAndPostingAgent ->
            {"add_final_review_to_state", "post_final_review_to_github"}

\* ------------------------------------------------------------ shared state
EmptyDict == [k \in {} |-> ""]

\* AgentWorkflow(initial_state={...})
initial_state ==
    [k \in {"gathered_contexts", "review_comment", "final_review_comment"} |-> ""]

\* current_state[key] = value
SetItem(d, key, value) ==
    [k \in (DOMAIN d) \cup {key} |-> IF k = key THEN value ELSE d[k]]

\* ------------------------------------------------------------ tool results
\* What a tool call gives its caller: a value (tagged by its kind) or an
\* exception.  Every result has the same fields; the ones its kind does not
\* use are empty.
NoPR ==
    [author |-> "", title |-> "", body |-> "", diff_url |-> "", state |-> "",
     commit_SHAs |-> <<>>]
ReturnPR(pr)       == [kind |-> "dict", pr |-> pr, files |-> <<>>, text |-> ""]
ReturnFiles(files) == [kind |-> "list", pr |-> NoPR, files |-> files, text |-> ""]
ReturnText(text)   == [kind |-> "str", pr |-> NoPR, files |-> <<>>, text |-> text]
ReturnNone         == [kind |-> "None", pr |-> NoPR, files |-> <<>>, text |-> ""]
Raise              == [kind |-> "raise", pr |-> NoPR, files |-> <<>>, text |-> ""]
NoResult           == [kind |-> "", pr |-> NoPR, files |-> <<>>, text |-> ""]

\* The pull request, commit and file GitHub holds when a call succeeds.
head_sha == "sha1"
pull_request ==
    [author |-> "octocat", title |-> "Add recipe", body |-> "text",
     diff_url |-> "https://github.com/o/r/pull/1.diff", state |-> "open",
     commit_SHAs |-> <<head_sha>>]
commit_files ==
    << [filename |-> "app/models.py", status |-> "modified", additions |-> 1,
        deletions |-> 0, changes |-> 1, patch |-> "@@", ref |-> head_sha] >>
decoded_content == "class Recipe"

\* What the GitHub call behind each tool can do.
GitHubOutcomes(tool) ==
    CASE tool = "get_pr_details"     -> {"ok", "fail"}
      [] tool = "get_commit_details" -> {"ok", "fail"}
      [] tool = "get_file_content"   -> {"file", "directory", "not_file", "fail"}
      [] tool = PostTool             -> {"ok", "get_pull_fails", "create_review_fails"}
      [] OTHER                       -> {"none"}

GitHubFailed(gh) == gh \in {"fail", "get_pull_fails", "create_review_fails"}

\* ------------------------------------------------------------------- tools
\* def get_pr_details(pr_number)
get_pr_details(gh) ==
    IF gh = "ok"
    THEN ReturnPR(pull_request)
    ELSE ReturnPR([author |-> "unknown", title |-> "unknown", body |-> "",
                   diff_url |-> "unknown", state |-> "unknown",
                   commit_SHAs |-> <<>>])

\* def get_commit_details(head_sha): no try/except around repo.get_commit
get_commit_details(gh) ==
    IF gh = "ok" THEN ReturnFiles(commit_files) ELSE Raise

\* def get_file_content(file_path, ref)
get_file_content(gh) ==
    CASE gh = "directory" -> ReturnNone
      [] gh = "not_file"  -> ReturnNone
      [] gh = "file"      -> ReturnText(decoded_content)
      [] gh = "fail"      -> ReturnNone

\* Variant: the except clause swallows the exception.
post_final_review_to_github_swallowing(gh) == ReturnNone

\* def post_final_review_to_github(pr_number, final_review_comment):
\* try: get_pull; create_review  except Exception as e: raise e
post_final_review_to_github(gh) ==
    IF gh = "ok" THEN ReturnNone ELSE Raise

\* pr.create_review(...) took effect on GitHub
ReviewCreated(gh) == gh = "ok"

\* Variant: the tool assigns the initial key "gathered_contexts".
add_gathered_context_to_state_plural(current_state, gathered_context) ==
    SetItem(current_state, "gathered_contexts", gathered_context)

\* current_state["gathered_context"] = gathered_context
add_gathered_context_to_state(current_state, gathered_context) ==
    SetItem(current_state, "gathered_context", gathered_context)

\* Variant: the tool stores a new dictionary instead of the one it read.
add_draft_comment_to_state_fresh(current_state, draft_comment) ==
    SetItem(EmptyDict, "draft_comment", draft_comment)

\* current_state["draft_comment"] = draft_comment
add_draft_comment_to_state(current_state, draft_comment) ==
    SetItem(current_state, "draft_comment", draft_comment)

\* current_state["final_review_comment"] = final_review_comment
add_final_review_to_state(current_state, final_review_comment) ==
    SetItem(current_state, "final_review_comment", final_review_comment)

\* The synchronous tools, by name (FunctionTool.from_defaults(fn=..., name=...)).
CallTool(tool, gh) ==
    CASE tool = "get_pr_details"     -> get_pr_details(gh)
      [] tool = "get_commit_details" -> get_commit_details(gh)
      [] tool = "get_file_content"   -> get_file_content(gh)
      [] tool = PostTool             -> post_final_review_to_github(gh)

\* The state tools, by name: the dictionary the tool hands to ctx.store.set.
CallStateTool(tool, current_state, arg) ==
    CASE tool = "add_gathered_context_to_state" ->
            add_gathered_context_to_state(current_state, arg)
      [] tool = "add_draft_comment_to_state" ->
            add_draft_comment_to_state(current_state, arg)
      [] tool = "add_final_review_to_state" ->
            add_final_review_to_state(current_state, arg)

\* The key a state tool assigns in its dictionary.
AssignedKey(tool) == CHOOSE k \in DOMAIN CallStateTool(tool, EmptyDict, "") : TRUE

\* ------------------------------------------------------------------- state
VARIABLES
    current_agent,  \* the agent whose turn it is
    state,          \* the dictionary stored under "state" in ctx.store
    status,         \* "Running", "Success" (a final response), "Raised"
    turn,           \* agent turns taken so far
    calls,          \* the tool calls of the current turn
    posts,          \* reviews created on the pull request
    written,        \* per key, the value of the last completed ctx.store.set
    event           \* the last event of the run's event stream

vars == <<current_agent, state, status, turn, calls, posts, written, event>>

NoEvent == [kind |-> "start", agent |-> root_agent, target |-> ""]

\* A tool call as the agent issues it.
NewCall(tool, arg) ==
    [tool |-> tool, arg |-> arg, pc |-> "start", gh |-> "",
     current_state |-> EmptyDict, result |-> NoResult]

\* The arguments of a call: the text for a state tool; the pull request
\* number, SHA, path and review text of the GitHub tools do not matter here,
\* GitHub's answer being drawn in RunTool.
Args(tool) == IF tool \in StateTools THEN Values ELSE {""}

ToolCalls(agent) ==
    UNION {{NewCall(tool, arg) : arg \in Args(tool)} : tool \in tools(agent)}

\* The batches of tool calls an agent can issue in one turn.
Batches(agent) ==
    UNION {[1..n -> ToolCalls(agent)] : n \in 1..MaxBatch}

Idle == status = "Running" /\ calls = <<>>

\* workflow_agent.run(...): the run main() starts.
Init ==
    /\ current_agent = root_agent
    /\ state = initial_state
    /\ status = "Running"
    /\ turn = 0
    /\ calls = <<>>
    /\ posts = 0
    /\ written = EmptyDict
    /\ event = NoEvent

\* The agent answers with tool calls (AgentOutput.tool_calls).
AgentCallsTools ==
    /\ Idle
    /\ turn < MaxTurns
    /\ \E batch \in Batches(current_agent) : calls' = batch
    /\ turn' = turn + 1
    /\ event' = [kind |-> "tool_calls", agent |-> current_agent, target |-> ""]
    /\ UNCHANGED <<current_agent, state, status, posts, written>>

\* One of the GitHub tools runs: get_pr_details, get_commit_details,
\* get_file_content or post_final_review_to_github.
RunTool(i) ==
    /\ status = "Running"
    /\ i \in DOMAIN calls
    /\ calls[i].pc = "start"
    /\ calls[i].tool \notin StateTools
    /\ \E gh \in GitHubOutcomes(calls[i].tool) :
          /\ calls' = [calls EXCEPT ![i].pc = "done", ![i].gh = gh,
                                    ![i].result = CallTool(calls[i].tool, gh)]
          /\ posts' = IF calls[i].tool = PostTool /\ ReviewCreated(gh)
                      THEN posts + 1 ELSE posts
    /\ event' = [kind |-> "tool_result", agent |-> current_agent, target |-> ""]
    /\ UNCHANGED <<current_agent, state, status, turn, written>>

\* A state tool up to its first await: current_state = await ctx.store.get("state").
\* The awaits are where another call of the same turn may run.
StateToolGet(i) ==
    /\ status = "Running"
    /\ i \in DOMAIN calls
    /\ calls[i].pc = "start"
    /\ calls[i].tool \in StateTools
    /\ calls' = [calls EXCEPT ![i].pc = "got", ![i].current_state = state]
    /\ UNCHANGED <<current_agent, state, status, turn, posts, written, event>>

\* The rest of a state tool: current_state[key] = value;
\* await ctx.store.set("state", current_state)
StateToolSet(i) ==
    /\ status = "Running"
    /\ i \in DOMAIN calls
    /\ calls[i].pc = "got"
    /\ LET new == CallStateTool(calls[i].tool, calls[i].current_state, calls[i].arg)
       IN /\ state' = new
          /\ written' = SetItem(written, AssignedKey(calls[i].tool), calls[i].arg)
          /\ calls' = [calls EXCEPT ![i].pc = "done", ![i].current_state = new,
                                    ![i].result = ReturnNone]
    /\ event' = [kind |-> "tool_result", agent |-> current_agent, target |-> ""]
    /\ UNCHANGED <<current_agent, status, turn, posts>>

AllDone == \A i \in DOMAIN calls : calls[i].pc = "done"

\* Every call of the turn has ended; its results go back to the agent, whose
\* next turn follows.  Nothing in this file handles a tool's exception, so
\* for a call that raised this step (the exception is turned into a result
\* on its way) and ToolErrorPropagates (it is not) are both possible.
ToolResultsReturned ==
    /\ status = "Running"
    /\ calls # <<>>
    /\ AllDone
    /\ calls' = <<>>
    /\ UNCHANGED <<current_agent, state, status, turn, posts, written, event>>

\* An exception a tool raised leaves the run: main() has no try/except
\* around handler.stream_events(), and asyncio.run(main()) re-raises it.
ToolErrorPropagates(i) ==
    /\ status = "Running"
    /\ i \in DOMAIN calls
    /\ calls[i].pc = "done"
    /\ calls[i].result.kind = "raise"
    /\ status' = "Raised"
    /\ event' = [kind |-> "error", agent |-> current_agent, target |-> ""]
    /\ UNCHANGED <<current_agent, state, turn, calls, posts, written>>

\* The agent asks to hand off: to one of can_handoff_to, and control moves;
\* to any other name, and the agent is told so and keeps control.
AgentHandsOff ==
    /\ Idle
    /\ turn < MaxTurns
    /\ \E target \in HandoffTargets :
          IF target \in can_handoff_to(current_agent)
          THEN /\ current_agent' = target
               /\ event' = [kind |-> "handoff", agent |-> current_agent,
                            target |-> target]
          ELSE /\ current_agent' = current_agent
               /\ event' = [kind |-> "handoff_rejected", agent |-> current_agent,
                            target |-> target]
    /\ turn' = turn + 1
    /\ UNCHANGED <<state, status, calls, posts, written>>

\* The agent answers with text and no tool call: the run ends.
AgentFinalOutput ==
    /\ Idle
    /\ turn < MaxTurns
    /\ status' = "Success"
    /\ turn' = turn + 1
    /\ event' = [kind |-> "final", agent |-> current_agent, target |-> ""]
    /\ UNCHANGED <<current_agent, state, calls, posts, written>>

\* The call to the language model (llm, an OpenAI client) fails; nothing in
\* main() handles it.
InferenceFails ==
    /\ Idle
    /\ turn < MaxTurns
    /\ status' = "Raised"
    /\ turn' = turn + 1
    /\ event' = [kind |-> "error", agent |-> current_agent, target |-> ""]
    /\ UNCHANGED <<current_agent, state, calls, posts, written>>

Next ==
    \/ AgentCallsTools
    \/ \E i \in 1..MaxBatch : RunTool(i)
    \/ \E i \in 1..MaxBatch : StateToolGet(i)
    \/ \E i \in 1..MaxBatch : StateToolSet(i)
    \/ ToolResultsReturned
    \/ \E i \in 1..MaxBatch : ToolErrorPropagates(i)
    \/ AgentHandsOff
    \/ AgentFinalOutput
    \/ InferenceFails

Spec == Init /\ [][Next]_vars

\* ------------------------------------------------------------------ claims

C2_TerminatesWithinMaxTurns ==
    (turn >= MaxTurns /\ calls = <<>>) => status # "Running"

\* C3: a run that ends in success has posted at most one review.
C3_PostsAtMostOnce ==
    status = "Success" => posts <= 1

\* C4: a read tool whose GitHub call failed did not raise: it returned its
\* degraded result (get_pr_details the "unknown" record, get_file_content None).
C4_ReadToolsDegrade ==
    \A i \in DOMAIN calls :
        (calls[i].tool \in ReadTools /\ calls[i].pc = "done" /\ GitHubFailed(calls[i].gh))
        => /\ calls[i].result.kind # "raise"
           /\ calls[i].tool = "get_pr_details" =>
                 /\ calls[i].result.kind = "dict"
                 /\ calls[i].result.pr =
                      [author |-> "unknown", title |-> "unknown", body |-> "",
                       diff_url |-> "unknown", state |-> "unknown",
                       commit_SHAs |-> <<>>]
           /\ calls[i].tool = "get_file_content" => calls[i].result.kind = "None"

\* C5: a call of post_final_review_to_github whose GitHub call failed (the
\* fetch of the pull request or the creation of the review) ended in an
\* exception, never in a normal return.
C5_PostFailurePropagates ==
    \A i \in DOMAIN calls :
        (calls[i].tool = "post_final_review_to_github" /\ calls[i].pc = "done"
         /\ calls[i].gh \in {"get_pull_fails", "create_review_fails"})
        => calls[i].result.kind = "raise"

\* C5's case: the creation of the review failed and the tool has ended.
C5_Witness ==
    \E i \in DOMAIN calls :
        /\ calls[i].tool = "post_final_review_to_github"
        /\ calls[i].pc = "done"
        /\ calls[i].gh = "create_review_fails"
        /\ posts = 0

\* C6: a run never ends in a raw exception: it is running or has delivered
\* a result tagged Success, Exhausted or Failed.
C6_RunResultTagged ==
    status \in {"Running", "Success", "Exhausted", "Failed"}

\* C7: the run starts with exactly the three initial keys; every key a state
\* tool has set is present in the shared state with the last value written
\* to it; and no step removes a key.
C7_MonotonicVisibility ==
    /\ state = [k \in {"gathered_contexts", "review_comment", "final_review_comment"}
                  |-> ""]
    /\ [](\A k \in DOMAIN written : k \in DOMAIN state /\ state[k] = written[k])
    /\ [][DOMAIN state \subseteq DOMAIN state']_vars

\* C7's case: ContextAgent is in a turn of its own (its tool calls are in
\* flight) after ReviewAndPostingAgent and CommentorAgent each set a key in
\* earlier turns.
C7_Witness ==
    /\ current_agent = "ContextAgent"
    /\ calls # <<>>
    /\ "final_review_comment" \in DOMAIN written
    /\ "draft_comment" \in DOMAIN written
    /\ written["draft_comment"] = "v2"
    /\ state["final_review_comment"] = "v1"

\* C8: after a handoff request to a target outside the allowed set the run
\* is terminated with Failed.
C8_RejectedHandoffFailsRun ==
    event.kind = "handoff_rejected" => status = "Failed"

\* C10: "gathered_contexts" and "review_comment" always hold the empty
\* string, and every step that changes the shared state is the set of one
\* state tool, which gives its own key the tool's argument
\* (add_gathered_context_to_state "gathered_context",
\* add_draft_comment_to_state "draft_comment", add_final_review_to_state
\* "final_review_comment") and leaves every other key as it was.
C10_OneKeyPerTool ==
    /\ [](state["gathered_contexts"] = "" /\ state["review_comment"] = "")
    /\ [][state' # state =>
            \E i \in DOMAIN calls :
               /\ calls[i].pc = "got"
               /\ calls'[i].pc = "done"
               /\ LET key == CASE calls[i].tool = "add_gathered_context_to_state"
                                    -> "gathered_context"
                               [] calls[i].tool = "add_draft_comment_to_state"
                                    -> "draft_comment"
                               [] calls[i].tool = "add_final_review_to_state"
                                    -> "final_review_comment"
                  IN /\ key \in DOMAIN state'
                     /\ state'[key] = calls[i].arg
                     /\ \A k \in (DOMAIN state \cup DOMAIN state') \ {key} :
                           /\ k \in DOMAIN state
                           /\ k \in DOMAIN state'
                           /\ state'[k] = state[k]]_vars

\* C10's case: each of the three state tools has written its key.
C10_Witness ==
    /\ "gathered_context" \in DOMAIN state
    /\ "draft_comment" \in DOMAIN state
    /\ state["final_review_comment"] # ""
    /\ state["gathered_contexts"] = ""

====
